---------------------------- MODULE Spec2Model ----------------------------
(***************************************************************************)
(* A model of app.py, the healthcare dashboard: the one-time load and      *)
(* clean of assets/healthcare.csv, the module-level startup computations   *)
(* (record count, mean billing amount, layout), and the five Dash          *)
(* callbacks that filter the shared table `data` and return a figure.      *)
(*                                                                         *)
(* Text cells of the CSV are sequences of one-character strings, so that   *)
(* pd.to_numeric and pd.to_datetime are modelled by what they parse.  The  *)
(* cells of the model are written over digits, "-", "$" and letters; signs,*)
(* decimals and exponents do not occur in them.                            *)
(***************************************************************************)
EXTENDS Integers, Sequences, FiniteSets, Bags, TLC

VARIABLES
    csv,                \* assets/healthcare.csv as read_csv sees it (never written)
    pc,                 \* "loaded" | "serving" | "crashed": the module-level code
    data,               \* the shared table, data = load_data()
    num_records,        \* len(data)
    avg_billing_amount, \* data['Billing Amount'].mean()
    layout,             \* app.layout: the two top texts and the controls
    controls,           \* the browser's current value of the four controls
    pending,            \* callback requests in flight (a bag of requests)
    response,           \* the last callback response sent
    memo                \* history: one remembered (request, response) pair

vars == <<csv, pc, data, num_records, avg_billing_amount, layout,
          controls, pending, response, memo>>

----------------------------------------------------------------------------
(* Bounds of the model *)

\* The largest number of rows of the CSV file.
MaxRows == 3


----------------------------------------------------------------------------
(* Values *)

\* Python's None, as a control value.
None == "<None>"

\* `if selected_gender:` -- None and the empty string are falsy.
Truthy(v) == v # None /\ v # ""

Digits == {"0", "1", "2", "3", "4", "5", "6", "7", "8", "9"}

DigitValue(c) ==
    CASE c = "0" -> 0 [] c = "1" -> 1 [] c = "2" -> 2 [] c = "3" -> 3
      [] c = "4" -> 4 [] c = "5" -> 5 [] c = "6" -> 6 [] c = "7" -> 7
      [] c = "8" -> 8 [] c = "9" -> 9

AllDigits(text) == \A i \in 1..Len(text) : text[i] \in Digits

RECURSIVE ParseDigits(_)
ParseDigits(text) ==
    IF text = <<>> THEN 0
    ELSE ParseDigits(SubSeq(text, 1, Len(text) - 1)) * 10
         + DigitValue(text[Len(text)])

\* A float64 cell: a number, NaN, or (only if coercion were skipped) the
\* text left as it was.
NaN == [kind |-> "nan", v |-> 0]
Num(n) == [kind |-> "num", v |-> n]
Str == [kind |-> "str", v |-> 0]

\* pd.to_numeric(..., errors='coerce') on one cell.
to_numeric(text) ==
    IF text # <<>> /\ AllDigits(text) THEN Num(ParseDigits(text)) ELSE NaN

\* A datetime64 cell / a Period[M] cell; nat marks NaT.
NaT == [nat |-> TRUE, y |-> 0, m |-> 0, d |-> 0]
NaTPeriod == [nat |-> TRUE, y |-> 0, m |-> 0]

IsLeap(y) == (y % 4 = 0 /\ y % 100 # 0) \/ y % 400 = 0

DaysInMonth(y, m) ==
    IF m = 2 THEN (IF IsLeap(y) THEN 29 ELSE 28)
    ELSE IF m \in {4, 6, 9, 11} THEN 30 ELSE 31

\* pd.to_datetime(..., errors='coerce') on one cell written YYYY-MM-DD.
to_datetime(text) ==
    IF /\ Len(text) = 10
       /\ text[5] = "-" /\ text[8] = "-"
       /\ AllDigits(SubSeq(text, 1, 4))
       /\ AllDigits(SubSeq(text, 6, 7))
       /\ AllDigits(SubSeq(text, 9, 10))
    THEN LET y == ParseDigits(SubSeq(text, 1, 4))
             m == ParseDigits(SubSeq(text, 6, 7))
             d == ParseDigits(SubSeq(text, 9, 10))
         IN  IF y >= 1 /\ m \in 1..12 /\ d \in 1..DaysInMonth(y, m)
             THEN [nat |-> FALSE, y |-> y, m |-> m, d |-> d]
             ELSE NaT
    ELSE NaT

\* .dt.to_period('M') on one cell.
to_period_M(ts) ==
    IF ts.nat THEN NaTPeriod ELSE [nat |-> FALSE, y |-> ts.y, m |-> ts.m]

\* The ordinal of a monthly period: months since 1970-01.
PeriodOrdinal(p) == (p.y - 1970) * 12 + (p.m - 1)

Pad(n, width) ==
    LET s == ToString(n)
    IN  IF Len(s) >= width THEN s
        ELSE IF width - Len(s) = 1 THEN "0" \o s
        ELSE IF width - Len(s) = 2 THEN "00" \o s
        ELSE "000" \o s

\* .astype(str) on one Period[M] cell: "2024-01"; NaT becomes "NaT".
PeriodStr(p) ==
    IF p.nat THEN "NaT" ELSE Pad(p.y, 4) \o "-" \o Pad(p.m, 2)

----------------------------------------------------------------------------
(* The CSV file *)

Text_250 == <<"2", "5", "0">>
Text_100 == <<"1", "0", "0">>
Text_dollar90 == <<"$", "9", "0">>
Date_2024_01_15 == <<"2", "0", "2", "4", "-", "0", "1", "-", "1", "5">>
Date_2023_12_03 == <<"2", "0", "2", "3", "-", "1", "2", "-", "0", "3">>
Date_2024_01_20 == <<"2", "0", "2", "4", "-", "0", "1", "-", "2", "0">>
Date_2024_02_30 == <<"2", "0", "2", "4", "-", "0", "2", "-", "3", "0">>

CsvRow(g, a, c, i, b, d) ==
    [Gender |-> g, Age |-> a, MedicalCondition |-> c, InsuranceProvider |-> i,
     BillingAmount |-> b, DateOfAdmission |-> d]

\* The rows a file of the model is written from.  Between them: both
\* genders, two conditions, a billing amount that is not a number, a date
\* that is no calendar day, and months on both sides of a year's end.
CsvRows ==
    { CsvRow("Male", 34, "Flu", "Aetna", Text_250, Date_2024_01_15),
      CsvRow("Female", 61, "Asthma", "Cigna", Text_100, Date_2023_12_03),
      CsvRow("Male", 47, "Asthma", "Aetna", Text_dollar90, Date_2024_01_20),
      CsvRow("Female", 29, "Flu", "Cigna", Text_100, Date_2024_02_30) }

CsvFiles == UNION { [1..n -> CsvRows] : n \in 0..MaxRows }

----------------------------------------------------------------------------
(* load_data *)

load_data(file) ==
    [i \in 1..Len(file) |->
        LET raw == file[i]
            date == to_datetime(raw.DateOfAdmission)
        IN  [idx |-> i - 1,
             Gender |-> raw.Gender,
             Age |-> raw.Age,
             MedicalCondition |-> raw.MedicalCondition,
             InsuranceProvider |-> raw.InsuranceProvider,
             BillingAmount |-> to_numeric(raw.BillingAmount),
             DateOfAdmission |-> date,
             YearMonth |-> to_period_M(date)]]

----------------------------------------------------------------------------
(* Series helpers used by the module-level code *)

IsNum(cell) == cell.kind = "num"

\* The values of data['Billing Amount'] that are present, in row order.
RECURSIVE PresentValues(_)
PresentValues(frame) ==
    IF frame = <<>> THEN <<>>
    ELSE LET rest == PresentValues(Tail(frame))
         IN  IF IsNum(Head(frame).BillingAmount)
             THEN <<Head(frame).BillingAmount.v>> \o rest
             ELSE rest

RECURSIVE SumSeq(_)
SumSeq(s) == IF s = <<>> THEN 0 ELSE Head(s) + SumSeq(Tail(s))

\* A Python float that is a ratio of integers, or NaN.
Rat(n, d) == [na |-> FALSE, num |-> n, den |-> d]
FloatNaN == [na |-> TRUE, num |-> 0, den |-> 1]

\* Series.mean(), skipna: the exact ratio sum/count, or NaN when no value is
\* present.
Mean(frame) ==
    LET xs == PresentValues(frame)
    IN  IF xs = <<>> THEN FloatNaN ELSE Rat(SumSeq(xs), Len(xs))

\* f"{x:.2f}": "nan" for NaN, else two decimals, rounded to nearest (the
\* amounts are non-negative).
FormatFixed2(x) ==
    IF x.na THEN "nan"
    ELSE LET cents == (2 * 100 * x.num + x.den) \div (2 * x.den)
         IN  ToString(cents \div 100) \o "." \o Pad(cents % 100, 2)

RECURSIVE Insert(_, _)
Insert(x, sorted) ==
    IF sorted = <<>> THEN <<x>>
    ELSE IF x <= Head(sorted) THEN <<x>> \o sorted
    ELSE <<Head(sorted)>> \o Insert(x, Tail(sorted))

RECURSIVE sort_values(_)
sort_values(s) ==
    IF s = <<>> THEN <<>> ELSE Insert(Head(s), sort_values(Tail(s)))

\* Series.quantile(k/4), linear interpolation: a ratio over 4, or NaN when
\* no value is present.
Quantile(frame, k) ==
    LET xs == sort_values(PresentValues(frame))
        n == Len(xs)
        pos == k * (n - 1)
        lo == pos \div 4 + 1
        r == pos % 4
    IN  IF n = 0 THEN FloatNaN
        ELSE Rat(4 * xs[lo] + (IF r = 0 THEN 0 ELSE (xs[lo + 1] - xs[lo]) * r), 4)

RECURSIVE Unique(_)
\* Series.unique(): the distinct values in order of first appearance.
Unique(s) ==
    IF s = <<>> THEN <<>>
    ELSE LET init == Unique(SubSeq(s, 1, Len(s) - 1))
             x == s[Len(s)]
         IN  IF \E i \in 1..Len(init) : init[i] = x THEN init ELSE Append(init, x)

Column(frame, name) ==
    [i \in 1..Len(frame) |->
        CASE name = "Gender" -> frame[i].Gender
          [] name = "MedicalCondition" -> frame[i].MedicalCondition]


\* Series.min() / Series.max(), skipna: NaN when no value is present.
SeriesMin(frame) ==
    LET xs == sort_values(PresentValues(frame))
    IN  IF xs = <<>> THEN FloatNaN ELSE Rat(xs[1], 1)

SeriesMax(frame) ==
    LET xs == sort_values(PresentValues(frame))
    IN  IF xs = <<>> THEN FloatNaN ELSE Rat(xs[Len(xs)], 1)

\* int(value) of a non-negative float; int(nan) raises ValueError.
IntRaises(x) == x.na
IntOf(x) == x.num \div x.den

----------------------------------------------------------------------------
(* Module-level code after load_data: lines 19-131 *)

\* dcc.Slider(step=100)
step == 100

Quartiles == {0, 1, 2, 3, 4}

\* Line 92 raises when a quantile is NaN: the dict comprehension calls
\* int(value) on each of the five quantiles.
LayoutRaises(d) == \E k \in Quartiles : IntRaises(Quantile(d, k))

NoLayout ==
    [built |-> FALSE, total_text |-> "", avg_text |-> "",
     gender_options |-> <<>>, condition_options |-> <<>>,
     slider_min |-> FloatNaN, slider_max |-> FloatNaN,
     slider_value |-> FloatNaN, slider_marks |-> {}, slider_step |-> step,
     chart_type_value |-> "line"]

BuildLayout(d, n, avg) ==
    [built |-> TRUE,
     total_text |-> "Total Records: " \o ToString(n),
     avg_text |-> "Average Biling Amount: " \o FormatFixed2(avg),
     gender_options |-> Unique(Column(d, "Gender")),
     condition_options |-> Unique(Column(d, "MedicalCondition")),
     slider_min |-> SeriesMin(d),
     slider_max |-> SeriesMax(d),
     slider_value |-> Quantile(d, 2),
     slider_marks |-> { IntOf(Quantile(d, k)) : k \in Quartiles },
     slider_step |-> step,
     chart_type_value |-> "line"]

\* The control values the page starts with: value=None, value=median,
\* value='line', value=None.
InitialControls(lay) ==
    [gender |-> None, slider |-> lay.slider_value,
     chart_type |-> lay.chart_type_value, condition |-> None]

NoControls ==
    [gender |-> None, slider |-> FloatNaN, chart_type |-> "line",
     condition |-> None]

----------------------------------------------------------------------------
(* Frames and the filters of the callbacks *)

\* Mutant: the comparison is != where the code has ==.
FilterGender_ne(frame, selected_gender) ==
    IF Truthy(selected_gender)
    THEN SelectSeq(frame, LAMBDA r : r.Gender # selected_gender)
    ELSE frame

\* data[data['Gender'] == selected_gender] if selected_gender else data
FilterGender(frame, selected_gender) ==
    IF Truthy(selected_gender)
    THEN SelectSeq(frame, LAMBDA r : r.Gender = selected_gender)
    ELSE frame

\* cell <= slider_value on a float64 cell: False for NaN.
Le(cell, x) == IsNum(cell) /\ ~x.na /\ cell.v * x.den <= x.num

\* The comparison raises TypeError on a column that still holds text.
CompareRaises(frame) == \E i \in 1..Len(frame) : frame[i].BillingAmount.kind = "str"

\* Mutant: ~(cell > slider_value), which keeps the rows whose cell is NaN.
FilterBilling_keepnan(frame, slider_value) ==
    SelectSeq(frame, LAMBDA r : ~(IsNum(r.BillingAmount)
                                    /\ r.BillingAmount.v * slider_value.den
                                         > slider_value.num))

\* Mutant: the mask is taken from the whole table and applied by position.
RECURSIVE TakeByMask(_, _, _)
TakeByMask(frame, table, slider_value) ==
    IF frame = <<>> \/ table = <<>> THEN <<>>
    ELSE LET rest == TakeByMask(Tail(frame), Tail(table), slider_value)
         IN  IF Le(Head(table).BillingAmount, slider_value)
             THEN <<Head(frame)>> \o rest
             ELSE rest

FilterBilling_positional(frame, slider_value) ==
    TakeByMask(frame, data, slider_value)

\* filtered_df[filtered_df['Billing Amount'] <= slider_value]
FilterBilling(frame, slider_value) ==
    SelectSeq(frame, LAMBDA r : Le(r.BillingAmount, slider_value))

\* data[data['Medical Condition'] == selected_condition] if selected_condition else data
FilterCondition(frame, selected_condition) ==
    IF Truthy(selected_condition)
    THEN SelectSeq(frame, LAMBDA r : r.MedicalCondition = selected_condition)
    ELSE frame

\* The group keys of groupby('YearMonth'): the distinct periods that are not
\* NaT (dropna=True), in ascending order (sort=True).
RECURSIVE InsertPeriod(_, _)
InsertPeriod(p, sorted) ==
    IF sorted = <<>> THEN <<p>>
    ELSE IF PeriodOrdinal(p) = PeriodOrdinal(Head(sorted)) THEN sorted
    ELSE IF PeriodOrdinal(p) < PeriodOrdinal(Head(sorted)) THEN <<p>> \o sorted
    ELSE <<Head(sorted)>> \o InsertPeriod(p, Tail(sorted))

\* Mutant: groupby(..., sort=False), the keys in order of first appearance.
RECURSIVE GroupKeys_unsorted(_)
GroupKeys_unsorted(frame) ==
    IF frame = <<>> THEN <<>>
    ELSE LET keys == GroupKeys_unsorted(SubSeq(frame, 1, Len(frame) - 1))
             p == frame[Len(frame)].YearMonth
         IN  IF p.nat \/ \E i \in 1..Len(keys) : keys[i] = p
             THEN keys
             ELSE Append(keys, p)

RECURSIVE GroupKeys(_)
GroupKeys(frame) ==
    IF frame = <<>> THEN <<>>
    ELSE LET keys == GroupKeys(Tail(frame))
             p == Head(frame).YearMonth
         IN  IF p.nat THEN keys ELSE InsertPeriod(p, keys)

\* filtered_df.groupby('YearMonth').size().reset_index(name='Count')
GroupBySize(frame) ==
    LET keys == GroupKeys(frame)
    IN  [i \in 1..Len(keys) |->
            [YearMonth |-> keys[i],
             Count |-> Len(SelectSeq(frame, LAMBDA r : r.YearMonth = keys[i]))]]

\* trend_df['YearMonth'] = trend_df['YearMonth'].astype(str)
AsTypeStr(trend) ==
    [i \in 1..Len(trend) |->
        [YearMonth |-> PeriodStr(trend[i].YearMonth), Count |-> trend[i].Count]]

----------------------------------------------------------------------------
(* Figures *)

\* px.histogram(..., nbins=10)
nbins == 10

Figure(kind, x, y, color, names, bins, frame) ==
    [kind |-> kind, x |-> x, y |-> y, color |-> color, names |-> names,
     nbins |-> bins, frame |-> frame]

\* `return {}`: the empty-result state.
EmptyResult == Figure("empty", "", "", "", "", 0, <<>>)

\* No figure at all: nothing was returned.
NoFigure == Figure("none", "", "", "", "", 0, <<>>)

\* What a callback hands back: the figure, whether it raised instead, and
\* the shared table as the call leaves it.
Returned(fig, d) == [raised |-> FALSE, fig |-> fig, data |-> d]
Raised(d) == [raised |-> TRUE, fig |-> NoFigure, data |-> d]


----------------------------------------------------------------------------
(* The five callbacks.  Each takes the shared table and its control values *)
(* and gives Returned(figure, table) or Raised(table).                     *)

\* Mutant: the check for an empty frame is left out.
update_distribution_nocheck(d, selected_gender) ==
    Returned(Figure("histogram", "Age", "", "Gender", "", nbins,
                    FilterGender(d, selected_gender)), d)

\* Mutant: the figure of the last call is kept and handed out again, whatever
\* gender is selected now.
update_distribution_cached(d, selected_gender) ==
    IF response.set /\ response.req.h = "update_distribution"
    THEN Returned(response.fig, d)
    ELSE LET filtered_df == FilterGender(d, selected_gender)
         IN  IF filtered_df = <<>>
             THEN Returned(EmptyResult, d)
             ELSE Returned(Figure("histogram", "Age", "", "Gender", "", nbins,
                                  filtered_df), d)

update_distribution(d, selected_gender) ==
    LET filtered_df == FilterGender(d, selected_gender)
    IN  IF filtered_df = <<>>
        THEN Returned(EmptyResult, d)
        ELSE Returned(Figure("histogram", "Age", "", "Gender", "", nbins,
                             filtered_df), d)

update_medical_condition(d, selected_gender) ==
    LET filtered_df == FilterGender(d, selected_gender)
    IN  Returned(Figure("pie", "", "", "", "Medical Condition", 0, filtered_df), d)

update_insurance(d, selected_gender) ==
    LET filtered_df == FilterGender(d, selected_gender)
    IN  Returned(Figure("bar", "Insurance Provider", "Billing Amount",
                        "Medical Condition", "", 0, filtered_df), d)

update_billing(d, selected_gender, slider_value) ==
    LET by_gender == FilterGender(d, selected_gender)
    IN  IF CompareRaises(by_gender)
        THEN Raised(d)
        ELSE Returned(Figure("histogram", "Billing Amount", "", "", "", nbins,
                             FilterBilling(by_gender, slider_value)), d)

\* Mutant: the rows without a YearMonth are dropped in place from
\* filtered_df, which is the shared table itself when no condition is
\* selected.
update_admission_inplace(d, chart_type, selected_condition) ==
    LET filtered_df == FilterCondition(d, selected_condition)
        trend_df == AsTypeStr(GroupBySize(filtered_df))
        kind == IF chart_type = "line" THEN "line" ELSE "bar"
    IN  Returned(Figure(kind, "YearMonth", "Count", "", "", 0, trend_df),
                 IF Truthy(selected_condition) THEN d
                 ELSE SelectSeq(d, LAMBDA r : ~r.YearMonth.nat))

update_admission(d, chart_type, selected_condition) ==
    LET filtered_df == FilterCondition(d, selected_condition)
        trend_df == AsTypeStr(GroupBySize(filtered_df))
    IN  IF chart_type = "line"
        THEN Returned(Figure("line", "YearMonth", "Count", "", "", 0, trend_df), d)
        ELSE Returned(Figure("bar", "YearMonth", "Count", "", "", 0, trend_df), d)

----------------------------------------------------------------------------
(* Requests and the callback registry *)

Handlers ==
    {"update_distribution", "update_medical_condition", "update_insurance",
     "update_billing", "update_admission"}

\* A request names the callback and carries the values of its Inputs; the
\* fields a callback does not take are left blank.
Request(h, g, s, ct, c) ==
    [h |-> h, selected_gender |-> g, slider_value |-> s, chart_type |-> ct,
     selected_condition |-> c]

NoRequest == Request("", None, FloatNaN, None, None)

\* The function a request is routed to.
Handle(d, req) ==
    CASE req.h = "update_distribution" ->
            update_distribution(d, req.selected_gender)
      [] req.h = "update_medical_condition" ->
            update_medical_condition(d, req.selected_gender)
      [] req.h = "update_insurance" ->
            update_insurance(d, req.selected_gender)
      [] req.h = "update_billing" ->
            update_billing(d, req.selected_gender, req.slider_value)
      [] req.h = "update_admission" ->
            update_admission(d, req.chart_type, req.selected_condition)

\* Mutant: update_billing takes the gender as State, not as Input.
Inputs_gender_as_state(h) ==
    CASE h = "update_distribution" -> {"gender-filter"}
      [] h = "update_medical_condition" -> {"gender-filter"}
      [] h = "update_insurance" -> {"gender-filter"}
      [] h = "update_billing" -> {"billing-slider"}
      [] h = "update_admission" -> {"chart-type", "condition-filter"}

\* @app.callback(Output(...), Input(...)): the component ids each callback
\* is registered on.
Inputs(h) ==
    CASE h = "update_distribution" -> {"gender-filter"}
      [] h = "update_medical_condition" -> {"gender-filter"}
      [] h = "update_insurance" -> {"gender-filter"}
      [] h = "update_billing" -> {"gender-filter", "billing-slider"}
      [] h = "update_admission" -> {"chart-type", "condition-filter"}

Output(h) ==
    CASE h = "update_distribution" -> "age-distribution"
      [] h = "update_medical_condition" -> "condition-distribution"
      [] h = "update_insurance" -> "insurance-comparison"
      [] h = "update_billing" -> "billing-distribution"
      [] h = "update_admission" -> "admission-trends"

\* The callbacks a change of component `id` triggers.
Subscribers(id) == { h \in Handlers : id \in Inputs(h) }

\* The request for callback h when the controls stand at c.
RequestFor(h, c) ==
    CASE h \in {"update_distribution", "update_medical_condition",
                "update_insurance"} ->
            Request(h, c.gender, FloatNaN, None, None)
      [] h = "update_billing" -> Request(h, c.gender, c.slider, None, None)
      [] h = "update_admission" ->
            Request(h, None, FloatNaN, c.chart_type, c.condition)

\* One request per callback registered on the changed component.
Dispatch(id, c) == SetToBag({ RequestFor(h, c) : h \in Subscribers(id) })


----------------------------------------------------------------------------
(* State *)

NoResponse == [set |-> FALSE, req |-> NoRequest, raised |-> FALSE, fig |-> NoFigure]

NoMemo ==
    [set |-> FALSE, req |-> NoRequest, raised |-> FALSE, fig |-> NoFigure,
     other |-> FALSE]

\* The values a request may carry for each Input.  The server does not
\* check a value against the control's options, so a gender or condition
\* that no row has, and a slider value below every amount, are among them.
GenderValues == {None, "Male", "Female"}
ConditionValues == {None, "Flu", "Asthma"}
ChartTypes == {"line", "bar"}
SliderValues == {Rat(50, 1), Rat(100, 1), Rat(250, 1)}

\* After line 17: the file has been read and cleaned, nothing else has run.
Init ==
    /\ csv \in CsvFiles
    /\ data = load_data(csv)
    /\ pc = "loaded"
    /\ num_records = 0
    /\ avg_billing_amount = FloatNaN
    /\ layout = NoLayout
    /\ controls = NoControls
    /\ pending = EmptyBag
    /\ response = NoResponse
    /\ memo = NoMemo

\* Lines 19-131: the two statistics and the layout.  Building the slider's
\* marks raises when no Billing Amount is present, and the module stops
\* there; otherwise the server starts.
Startup ==
    /\ pc = "loaded"
    /\ num_records' = Len(data)
    /\ avg_billing_amount' = Mean(data)
    /\ IF LayoutRaises(data)
       THEN /\ pc' = "crashed"
            /\ layout' = NoLayout
            /\ controls' = NoControls
       ELSE /\ pc' = "serving"
            /\ layout' = BuildLayout(data, Len(data), Mean(data))
            /\ controls' = InitialControls(BuildLayout(data, Len(data), Mean(data)))
    /\ UNCHANGED <<csv, data, pending, response, memo>>

\* The server runs the callback of `req` on the shared table and sends the
\* response.  With `track`, the history variable memo may take this
\* (request, response) pair if it holds none, and notes when a different
\* request has been answered since.
Answer(req, track) ==
    LET out == Handle(data, req)
        resp == [set |-> TRUE, req |-> req, raised |-> out.raised, fig |-> out.fig]
    IN  /\ pc = "serving"
        /\ data' = out.data
        /\ response' = resp
        /\ IF ~track THEN memo' = memo
           ELSE IF ~memo.set
                THEN memo' \in {memo,
                                [set |-> TRUE, req |-> req, raised |-> out.raised,
                                 fig |-> out.fig, other |-> FALSE]}
                ELSE memo' = [memo EXCEPT !.other = @ \/ memo.req # req]

(* Requests as the server receives them, in any order and with any values *)

request_update_distribution ==
    /\ \E g \in GenderValues :
          Answer(Request("update_distribution", g, FloatNaN, None, None), TRUE)
    /\ UNCHANGED <<csv, pc, num_records, avg_billing_amount, layout, controls, pending>>

request_update_medical_condition ==
    /\ \E g \in GenderValues :
          Answer(Request("update_medical_condition", g, FloatNaN, None, None), TRUE)
    /\ UNCHANGED <<csv, pc, num_records, avg_billing_amount, layout, controls, pending>>

request_update_insurance ==
    /\ \E g \in GenderValues :
          Answer(Request("update_insurance", g, FloatNaN, None, None), TRUE)
    /\ UNCHANGED <<csv, pc, num_records, avg_billing_amount, layout, controls, pending>>

request_update_billing ==
    /\ \E g \in GenderValues, s \in SliderValues :
          Answer(Request("update_billing", g, s, None, None), TRUE)
    /\ UNCHANGED <<csv, pc, num_records, avg_billing_amount, layout, controls, pending>>

request_update_admission ==
    /\ \E ct \in ChartTypes, c \in ConditionValues :
          Answer(Request("update_admission", None, FloatNaN, ct, c), TRUE)
    /\ UNCHANGED <<csv, pc, num_records, avg_billing_amount, layout, controls, pending>>

Next ==
    \/ Startup
    \/ request_update_distribution
    \/ request_update_medical_condition
    \/ request_update_insurance
    \/ request_update_billing
    \/ request_update_admission

Spec == Init /\ [][Next]_vars

(* The page of one browser: a change of one control sends one request per   *)
(* callback that is registered on it, and the server answers the requests  *)
(* in flight in any order.  The controls change one at a time, the next     *)
(* after the requests of the last change have been answered; requests in    *)
(* any number and order are what Spec covers.  The requests Dash sends when  *)
(* the page is first loaded are no change of a control and are left out.    *)

RECURSIVE SeqToSet(_)
SeqToSet(s) == IF s = <<>> THEN {} ELSE {Head(s)} \cup SeqToSet(Tail(s))

\* The positions the slider can be dragged to: min, min + step, ... up to max.
SliderPositions(lay) ==
    { Rat(IntOf(lay.slider_min) + k * lay.slider_step, 1) :
        k \in { j \in 0..((IntOf(lay.slider_max) - IntOf(lay.slider_min))
                            \div lay.slider_step) : TRUE } }

\* The change of component `id` to the control values c.
Change(id, c) ==
    /\ pc = "serving"
    /\ c # controls
    /\ pending = EmptyBag
    /\ controls' = c
    /\ pending' = pending (+) Dispatch(id, c)
    /\ UNCHANGED <<csv, pc, data, num_records, avg_billing_amount, layout,
                   response, memo>>

change_gender_filter ==
    \E g \in SeqToSet(layout.gender_options) \cup {None} :
        Change("gender-filter", [controls EXCEPT !.gender = g])

change_billing_slider ==
    \E s \in SliderPositions(layout) :
        Change("billing-slider", [controls EXCEPT !.slider = s])

change_chart_type ==
    \E ct \in ChartTypes :
        Change("chart-type", [controls EXCEPT !.chart_type = ct])

change_condition_filter ==
    \E c \in SeqToSet(layout.condition_options) \cup {None} :
        Change("condition-filter", [controls EXCEPT !.condition = c])

\* The server answers one request in flight for callback h; the figure goes
\* to the callback's Output, and a change of that component triggers the
\* callbacks registered on it.
Run(h) ==
    \E req \in BagToSet(pending) :
        /\ req.h = h
        /\ Answer(req, FALSE)
        /\ pending' = (pending (-) SetToBag({req})) (+) Dispatch(Output(h), controls)
        /\ UNCHANGED <<csv, pc, num_records, avg_billing_amount, layout, controls>>

run_update_distribution == Run("update_distribution")
run_update_medical_condition == Run("update_medical_condition")
run_update_insurance == Run("update_insurance")
run_update_billing == Run("update_billing")
run_update_admission == Run("update_admission")

NextUI ==
    \/ Startup
    \/ change_gender_filter
    \/ change_billing_slider
    \/ change_chart_type
    \/ change_condition_filter
    \/ run_update_distribution
    \/ run_update_medical_condition
    \/ run_update_insurance
    \/ run_update_billing
    \/ run_update_admission

SpecUI == Init /\ [][NextUI]_vars


----------------------------------------------------------------------------
(* Properties *)

RowsOf(frame) == { frame[i] : i \in 1..Len(frame) }

NoDuplicates(frame) == Cardinality(RowsOf(frame)) = Len(frame)

\* The response in hand is callback h's.
Answered(h) == response.set /\ response.req.h = h

\* The cells of the model's files that are not numbers, and the dates that
\* are no calendar day.
NonNumericTexts == {Text_dollar90}
UnparseableDates == {Date_2024_02_30}

\* The file's cell a row of a frame was loaded from.
RawOf(r) == csv[r.idx + 1]

\* The rows of the table a gender selection stands for.
GenderRows(g) == { r \in RowsOf(data) : g = None \/ r.Gender = g }

\* C1: after load_data() has returned, the shared table is never changed:
\* in every state reached by any sequence of callback requests, with any
\* values, `data` is the table load_data made of the file.
DataNeverChanges == data = load_data(csv)

\* C1's case: several different requests have been answered, the last one
\* update_admission with no condition selected (its filtered_df is the
\* shared table itself), on a table that has a row without YearMonth.
DataNeverChangesWitness ==
    /\ Answered("update_admission")
    /\ response.req.selected_condition = None
    /\ memo.set /\ memo.other
    /\ \E r \in RowsOf(data) : r.YearMonth.nat
    /\ data = load_data(csv)

\* C2: update_billing builds its histogram from exactly the rows that match
\* the selected gender (any row when none is selected) and whose Billing
\* Amount is present and <= the slider value; a row whose amount was coerced
\* to missing is not among them, and the callback does not raise.
BillingInput ==
    Answered("update_billing") =>
        LET g == response.req.selected_gender
            x == response.req.slider_value
            frame == response.fig.frame
        IN  /\ ~response.raised
            /\ response.fig.kind = "histogram"
            /\ response.fig.x = "Billing Amount"
            /\ NoDuplicates(frame)
            /\ RowsOf(frame) =
                 { r \in GenderRows(g) :
                     /\ r.BillingAmount.kind = "num"
                     /\ r.BillingAmount.v * x.den <= x.num }
            /\ \A r \in RowsOf(frame) :
                 RawOf(r).BillingAmount \notin NonNumericTexts

\* C2's case: the selected gender has a row whose amount is not a number
\* and a row whose amount is within the slider value.
BillingInputWitness ==
    /\ Answered("update_billing")
    /\ response.req.selected_gender = "Male"
    /\ \E r \in GenderRows("Male") : RawOf(r).BillingAmount \in NonNumericTexts
    /\ response.fig.frame # <<>>
    /\ ~response.raised

\* C3: when the filtered set of update_billing has no rows, update_billing
\* returns the empty-result state, as update_distribution does.
BillingEmptyResult ==
    Answered("update_billing") =>
        LET g == response.req.selected_gender
            x == response.req.slider_value
        IN  { r \in GenderRows(g) :
                /\ r.BillingAmount.kind = "num"
                /\ r.BillingAmount.v * x.den <= x.num } = {}
            => (~response.raised /\ response.fig = EmptyResult)

\* C4: the histogram input of update_distribution is exactly the rows whose
\* Gender equals the selected value, and the whole table when the control
\* is unselected.
DistributionInput ==
    (Answered("update_distribution") /\ response.fig.kind = "histogram") =>
        LET g == response.req.selected_gender
            frame == response.fig.frame
        IN  /\ NoDuplicates(frame)
            /\ g = None => frame = data
            /\ g # None => RowsOf(frame) = { r \in RowsOf(data) : r.Gender = g }

\* C4's case: a table with a Male row and a Female row, gender = Male: the
\* input is the one Male row.
DistributionInputWitness ==
    /\ Answered("update_distribution")
    /\ response.req.selected_gender = "Male"
    /\ Len(data) = 2
    /\ data[1].Gender = "Male" /\ data[2].Gender = "Female"
    /\ response.fig.frame = <<data[1]>>

\* C5: update_distribution returns the empty-result state exactly when the
\* rows it selects are empty, and a histogram otherwise.
DistributionEmptyResult ==
    Answered("update_distribution") =>
        /\ ~response.raised
        /\ GenderRows(response.req.selected_gender) = {}
             => response.fig = EmptyResult
        /\ GenderRows(response.req.selected_gender) # {}
             => (response.fig.kind = "histogram" /\ response.fig.frame # <<>>)

\* C5's case: no row of a table with rows has the selected gender.
DistributionEmptyResultWitness ==
    /\ Answered("update_distribution")
    /\ data # <<>>
    /\ GenderRows(response.req.selected_gender) = {}
    /\ response.fig = EmptyResult

\* The rows update_admission counts for a condition selection.
ConditionRows(c) == { r \in RowsOf(data) : c = None \/ r.MedicalCondition = c }

\* The year-months of the rows whose date is a calendar day.
YearMonths(rows) ==
    { r.YearMonth : r \in { q \in rows : RawOf(q).DateOfAdmission \notin UnparseableDates } }

Earlier(p, q) == p.y < q.y \/ (p.y = q.y /\ p.m < q.m)

\* C6: update_admission gives one bucket per distinct year-month of the
\* filtered rows, each with the number of filtered rows in that year-month,
\* none for the rows without one, in chronological order; chart_type decides
\* only the kind of chart.
AdmissionBuckets ==
    Answered("update_admission") =>
        LET rows == ConditionRows(response.req.selected_condition)
            months == YearMonths(rows)
            trend == response.fig.frame
            PeriodOf(k) == CHOOSE p \in months : PeriodStr(p) = trend[k].YearMonth
        IN  /\ ~response.raised
            /\ response.fig.kind =
                 (IF response.req.chart_type = "line" THEN "line" ELSE "bar")
            /\ Len(trend) = Cardinality(months)
            /\ \A k \in 1..Len(trend) :
                 /\ \E p \in months : PeriodStr(p) = trend[k].YearMonth
                 /\ trend[k].YearMonth # "NaT"
                 /\ trend[k].Count =
                      Cardinality({ r \in rows : r.YearMonth = PeriodOf(k) })
            /\ \A k, l \in 1..Len(trend) :
                 k < l => Earlier(PeriodOf(k), PeriodOf(l))

\* C6's case: no condition selected, rows of January 2024 and December 2023
\* in that order and a row whose date is no calendar day: two buckets,
\* December first.
AdmissionBucketsWitness ==
    /\ Answered("update_admission")
    /\ response.req.selected_condition = None
    /\ \E r \in RowsOf(data) : RawOf(r).DateOfAdmission \in UnparseableDates
    /\ Len(response.fig.frame) = 2
    /\ response.fig.frame[1].YearMonth = "2023-12"
    /\ response.fig.frame[2].YearMonth = "2024-01"
    /\ data[1].YearMonth.y = 2024

\* C7: the rows update_billing takes (by gender, then by Billing Amount <= X)
\* are the rows taken by Billing Amount <= X first and by gender second.
FilterCommutes ==
    (Answered("update_billing") /\ ~response.raised) =>
        response.fig.frame =
            FilterGender(FilterBilling(data, response.req.slider_value),
                         response.req.selected_gender)

\* C7's case: a gender is selected, the table has a row of the other gender,
\* a row without an amount and a row above the slider value, and some row
\* is taken.
FilterCommutesWitness ==
    /\ Answered("update_billing")
    /\ response.req.selected_gender = "Female"
    /\ \E r \in RowsOf(data) : r.Gender = "Male" /\ r.BillingAmount.kind = "nan"
    /\ \E r \in RowsOf(data) :
         r.BillingAmount.kind = "num"
         /\ ~Le(r.BillingAmount, response.req.slider_value)
    /\ response.fig.frame # <<>>

\* C8: a callback called again with the same control values, other calls in
\* between or not, returns the same figure.
PureHandlers ==
    (memo.set /\ response.set /\ response.req = memo.req) =>
        (response.fig = memo.fig /\ response.raised = memo.raised)

\* C8's case: a request was answered, then a different one, then the first
\* again.
PureHandlersWitness ==
    /\ memo.set /\ memo.other
    /\ response.set /\ response.req = memo.req
    /\ response.fig.frame # <<>>
    /\ response.fig = memo.fig

\* C9: when no Billing Amount is present the mean is the "no value" outcome
\* and startup goes on to serve; when one is present the mean is the sum of
\* the present amounts over their number.
MeanDegradesWithoutCrash ==
    pc # "loaded" =>
        LET present == { r \in RowsOf(data) : r.BillingAmount.kind = "num" }
        IN  /\ present = {} =>
                 (avg_billing_amount.na /\ pc = "serving" /\ layout.built)
            /\ present # {} =>
                 /\ ~avg_billing_amount.na
                 /\ avg_billing_amount.den = Cardinality(present)
                 /\ avg_billing_amount.num =
                      SumSeq(PresentValues(load_data(csv)))

\* The requests a change of the gender control sends, and the one request a
\* change of each other control sends.
GenderRequests(c) ==
    { Request("update_distribution", c.gender, FloatNaN, None, None),
      Request("update_medical_condition", c.gender, FloatNaN, None, None),
      Request("update_insurance", c.gender, FloatNaN, None, None),
      Request("update_billing", c.gender, c.slider, None, None) }

BillingRequest(c) == Request("update_billing", c.gender, c.slider, None, None)

AdmissionRequest(c) ==
    Request("update_admission", None, FloatNaN, c.chart_type, c.condition)

\* C10 as stated: a change of a control's value triggers exactly one
\* callback.
OneCallbackPerChange ==
    [][(pc = "serving" /\ controls' # controls)
         => BagCardinality(pending') = BagCardinality(pending) + 1]_vars

\* C10 as amended: a change of the gender control triggers the four
\* callbacks registered on it, a change of the slider update_billing alone,
\* a change of the chart type or of the condition update_admission alone;
\* a callback's answer triggers none.
CallbacksPerChange ==
    [][pc = "serving" =>
        /\ controls'.gender # controls.gender
             => pending' = pending (+) SetToBag(GenderRequests(controls'))
        /\ controls'.slider # controls.slider
             => pending' = pending (+) SetToBag({BillingRequest(controls')})
        /\ (controls'.chart_type # controls.chart_type
              \/ controls'.condition # controls.condition)
             => pending' = pending (+) SetToBag({AdmissionRequest(controls')})
        /\ controls' = controls
             => BagCardinality(pending') = BagCardinality(pending) - 1]_vars

\* C10's case: the gender control has changed and its four requests are in
\* flight.
CallbacksPerChangeWitness ==
    /\ pc = "serving"
    /\ controls.gender # None
    /\ pending = SetToBag(GenderRequests(controls))
    /\ BagCardinality(pending) = 4

=============================================================================
